---- MODULE Spec2Model ----
(***************************************************************************)
(* Blockstore daemon (blockstored.py): the RPC endpoint, the indexer       *)
(* subprocess and the supervisor (run_server), together with the virtual-  *)
(* chain state engine they drive and read.                                 *)
(*                                                                         *)
(* The endpoint handlers, the indexer loop, the supervisor and the signal  *)
(* handlers are translated from src/blockstore/blockstored.py.  The state  *)
(* engine (lib.nameset, get_db_state) and the virtualchain driver are not  *)
(* part of the source tree; they are modelled from the design document     *)
(* (sections 3 to 6).                                                      *)
(***************************************************************************)
EXTENDS Integers, Sequences, FiniteSets, TLC

\* ------------------------------------------------------------------------
\* Bounds and configuration
\* ------------------------------------------------------------------------

\* Highest block the chain grows to.
MaxHeight == 2

\* Highest block of the acceptance-rule exploration (RulesSpec).
MaxRuleHeight == 5

\* Configuration surface (section 6): preorder_ttl, consensus_window_W and
\* the lifetime of the (single, ready) namespace.
PreorderTTL == 2
ConsensusWindow == 2
NamespaceLifetime == 2

Names == {"a", "b"}

\* Python's None for a name record, a consensus hash, an address.
NoAddr == "none"
NoData == 0

\* ------------------------------------------------------------------------
\* On-chain operations (section 4.2 / 4.3).  A transaction is an index into
\* OpTable; index 0 is a transaction that carries no operation payload.
\* `ch` is the height whose consensus hash the operation commits to.
\* ------------------------------------------------------------------------

Op(kind, name, sender, salt, ch, to, keep, data) ==
    [kind |-> kind, name |-> name, sender |-> sender, salt |-> salt,
     ch |-> ch, to |-> to, keep |-> keep, data |-> data]

OpTable ==
    << Op("preorder", "a", "A", 1, 1, NoAddr, FALSE, NoData),
       Op("register", "a", "A", 1, 1, NoAddr, FALSE, NoData),
       Op("register", "a", "B", 1, 1, NoAddr, FALSE, NoData),
       Op("update",   "a", "A", 0, 0, NoAddr, FALSE, 7),
       Op("transfer", "a", "A", 0, 0, "B",    FALSE, NoData),
       Op("revoke",   "a", "A", 0, 0, NoAddr, FALSE, NoData) >>

NoPayload == 0

\* The blocks the block source may serve: each an ordered list of
\* transactions.
BlockChoices == { <<NoPayload>>, <<1, 2>>, <<4, 5>> }

\* ------------------------------------------------------------------------
\* Name database (C3) and consensus tape (C4)
\* ------------------------------------------------------------------------

NoRecord ==
    [exists |-> FALSE, owner |-> NoAddr, data |-> NoData,
     registered |-> 0, expires |-> 0, revoked |-> FALSE]

\* Preorder fingerprint H(name || salt || consensus_hash).
Fingerprint(name, salt, ch) == <<name, salt, ch>>

\* The engine state: name table, preorder table, consensus tape (one entry
\* per processed block: the operations accepted in it).
Genesis ==
    [names |-> [n \in Names |-> NoRecord],
     preorders |-> {},
     tape |-> << >>]

\* The consensus hash of a tape.  H(ops_h || hash[h-1] || hash[h-W]) binds the
\* whole history, so the tape itself stands for the digest; the empty tape
\* is "no consensus hash yet" (None).
NoConsensus == << >>

get_current_consensus(db) == db.tape

get_name(db, name) == db.names[name]

is_name_registered(db, name) == db.names[name].exists

InWindow(ch, h) == ch >= 1 /\ ch < h /\ h - ch <= ConsensusWindow

\* Every preorder of a fingerprint, whatever its age.
AnyPreorders(db, fp, h) == { p \in db.preorders : p.fp = fp }

ActivePreorders(db, fp, h) ==
    { p \in db.preorders : p.fp = fp /\ h - p.height <= PreorderTTL }

Accepted(op, db, h) ==
    LET rec == db.names[op.name] IN
    CASE op.kind = "preorder" ->
            /\ ActivePreorders(db, Fingerprint(op.name, op.salt, op.ch), h) = {}
            /\ InWindow(op.ch, h)
      [] op.kind = "register" ->
            \E p \in ActivePreorders(db, Fingerprint(op.name, op.salt, op.ch), h) :
                p.sender = op.sender
      [] op.kind = "update" ->
            rec.exists /\ ~rec.revoked /\ h <= rec.expires /\ rec.owner = op.sender
      [] op.kind = "transfer" ->
            rec.exists /\ ~rec.revoked /\ h <= rec.expires /\ rec.owner = op.sender
      [] op.kind = "revoke" ->
            rec.exists /\ rec.owner = op.sender
      [] OTHER -> FALSE

Effect(op, db, h) ==
    LET rec == db.names[op.name] IN
    CASE op.kind = "preorder" ->
            [db EXCEPT !.preorders = @ \cup
                {[fp |-> Fingerprint(op.name, op.salt, op.ch),
                  sender |-> op.sender, height |-> h]}]
      [] op.kind = "register" ->
            [db EXCEPT
                !.names[op.name] =
                    [exists |-> TRUE, owner |-> op.sender, data |-> NoData,
                     registered |-> h, expires |-> h + NamespaceLifetime,
                     revoked |-> FALSE],
                !.preorders = { p \in @ :
                                  p.fp # Fingerprint(op.name, op.salt, op.ch) }]
      [] op.kind = "update" ->
            [db EXCEPT !.names[op.name].data = op.data]
      [] op.kind = "transfer" ->
            [db EXCEPT !.names[op.name].owner = op.to,
                       !.names[op.name].data = IF op.keep THEN @ ELSE NoData]
      [] op.kind = "revoke" ->
            [db EXCEPT !.names[op.name].revoked = TRUE,
                       !.names[op.name].data = NoData]
      [] OTHER -> db

\* apply(op, ctx) -> (state', accepted?)
Apply(op, db, h) ==
    IF Accepted(op, db, h)
    THEN [db |-> Effect(op, db, h), accepted |-> TRUE]
    ELSE [db |-> db, accepted |-> FALSE]

\* Extract: the candidate operations of a block, in transaction order.
Extract(block) == SelectSeq(block, LAMBDA t : t # NoPayload)

\* Validate-and-apply a list of candidate operations in order; `acc` is the
\* list of accepted operations so far.
RECURSIVE ApplyAll(_, _, _, _)
ApplyAll(ops, db, h, acc) ==
    IF ops = << >> THEN [db |-> db, accepted |-> acc]
    ELSE LET r == Apply(OpTable[Head(ops)], db, h) IN
         ApplyAll(Tail(ops), r.db, h,
                  IF r.accepted THEN Append(acc, Head(ops)) ELSE acc)

\* Seal: append the block's accepted operations to the consensus tape.
Seal(db, acc) == [db EXCEPT !.tape = Append(@, acc)]

\* The state after processing blocks 1..h of a chain from genesis.
RECURSIVE Replay(_, _)
Replay(blocks, h) ==
    IF h = 0 THEN Genesis
    ELSE LET prev == Replay(blocks, h - 1)
             r == ApplyAll(Extract(blocks[h]), prev, h, << >>)
         IN Seal(r.db, r.accepted)


\* ------------------------------------------------------------------------
\* State
\* ------------------------------------------------------------------------

VARIABLES
    chain,          \* block source: the blocks 1..tip
    snapshots,      \* snapshot files on disk, one per committed height
    committed,      \* the pointer file: last_processed
    work,           \* the driver's in-memory engine and its current block
    dpc,            \* the driver's position inside sync_virtualchain
    ipc,            \* the indexer subprocess's position in run_indexer
    last_block_id,  \* run_indexer's local: the sync target
    spc,            \* the supervisor's position in run_server
    current_block,  \* run_server's local: the tip seen at start-up
    epAlive,        \* the endpoint (twistd) process is running
    pidfile,        \* the endpoint's pid file: "none" or "written"
    req,            \* the preorder request the endpoint is in the middle of
    reply,          \* the reply sent by the step just taken, if any
    killed          \* where the driver was when it was last killed

vars == << chain, snapshots, committed, work, dpc, ipc, last_block_id, spc,
           current_block, epAlive, pidfile, req, reply, killed >>

engineVars == << snapshots, committed >>
driverVars == << work, dpc >>

tip == Len(chain)

NoWork == [db |-> Genesis, height |-> 0, todo |-> << >>, acc |-> << >>]

\* The in-memory engine a process holds after get_state_engine().
Loaded(db) == [db |-> db, height |-> 0, todo |-> << >>, acc |-> << >>]

NoKill == [pc |-> "none", height |-> 0]

NoReq == [method |-> "none", name |-> "", step |-> "idle", db |-> 0,
          consensus |-> NoConsensus]

NoTx == [op |-> "none", name |-> "", consensus |-> NoConsensus]

\* A handler's return value.  kind: "error" ({error: ...}), "tx" (the
\* constructor's transaction), "record" (a name record), "null" (None),
\* "info", "status", "fault" (an exception left the handler).
NoResult ==
    [kind |-> "none", error |-> "", tx |-> NoTx, record |-> NoRecord,
     blocks |-> 0, consensus |-> NoConsensus]

\* The reply on the wire, with the request it answers and the state of the
\* UTXO provider the request met.
Stamp(method, name, provider, result) ==
    [method |-> method, name |-> name, provider |-> provider,
     result |-> result]

NoReply == Stamp("none", "", "none", NoResult)

Init ==
    /\ chain = << >>
    /\ snapshots = [h \in {0} |-> Genesis]
    /\ committed = 0
    /\ work = NoWork
    /\ dpc = "idle"
    /\ ipc = "off"
    /\ last_block_id = 0
    /\ spc = "stopped"
    /\ current_block = 0
    /\ epAlive = FALSE
    /\ pidfile = "none"
    /\ req = NoReq
    /\ reply = NoReply
    /\ killed = NoKill

\* ------------------------------------------------------------------------
\* Environment: the chain, the block source, the UTXO provider
\* ------------------------------------------------------------------------

\* What the block source may answer to one request.
SourceAnswers == {"ok", "unavailable", "malformed"}

\* What constructing the UTXO clients may meet: chain.com reachable; only
\* bitcoind reachable; neither.
Providers == {"up", "chaincom_down", "down"}

TipGrow ==
    /\ tip < MaxHeight
    /\ \E b \in BlockChoices : chain' = Append(chain, b)
    /\ reply' = NoReply
    /\ UNCHANGED << engineVars, driverVars, ipc, last_block_id, spc,
                    current_block, epAlive, pidfile, req, killed >>

\* virtualchain.get_index_range: (last processed block, chain tip), or None
\* (modelled as << >>) when the block source does not answer.
get_index_range(answer) ==
    IF answer = "unavailable" THEN << >> ELSE << committed, tip >>

\* get_db_state: a handle to the committed snapshot, read through the
\* pointer file.
get_db_state == committed

\* A handle to the newest snapshot file on disk, whatever the pointer says.
NewestSnapshot ==
    CHOOSE h \in DOMAIN snapshots : \A x \in DOMAIN snapshots : x <= h

get_state_engine == get_db_state

\* What a handle reads.
View(handle) == snapshots[handle]

\* ------------------------------------------------------------------------
\* Virtual-chain driver (C5): sync_virtualchain, one block at a time
\* ------------------------------------------------------------------------

\* The target of the running sync_virtualchain call: run_server passes
\* current_block, run_indexer passes last_block_id.
Target == IF spc = "sync" THEN current_block ELSE last_block_id

BeginBlock(w, h) == [w EXCEPT !.height = h, !.todo = << >>, !.acc = << >>]

\* 1. Fetch
DriverFetch(answer) ==
    /\ answer = "ok"
    /\ dpc = "fetch"
    /\ work' = [work EXCEPT !.todo = chain[work.height]]
    /\ dpc' = "extract"
    /\ killed' = NoKill
    /\ reply' = NoReply
    /\ UNCHANGED << chain, engineVars, ipc, last_block_id, spc,
                    current_block, epAlive, pidfile, req >>

\* 1. Fetch, on unavailable: sleep REINDEX_FREQUENCY ...
DriverFetchUnavailable(answer) ==
    /\ answer = "unavailable"
    /\ dpc = "fetch"
    /\ dpc' = "backoff"
    /\ reply' = NoReply
    /\ UNCHANGED << chain, engineVars, work, ipc, last_block_id, spc,
                    current_block, epAlive, pidfile, req, killed >>

\* ... and retry.
DriverBackoff ==
    /\ dpc = "backoff"
    /\ dpc' = "fetch"
    /\ reply' = NoReply
    /\ UNCHANGED << chain, engineVars, work, ipc, last_block_id, spc,
                    current_block, epAlive, pidfile, req, killed >>

\* A malformed block is fatal: the exception leaves sync_virtualchain and
\* ends the process that called it.
DriverHalt(answer) ==
    /\ answer = "malformed"
    /\ dpc = "fetch"
    /\ dpc' = "idle"
    /\ work' = NoWork
    /\ IF spc = "sync"
       THEN spc' = "failed" /\ ipc' = ipc
       ELSE ipc' = "crashed" /\ spc' = spc
    /\ reply' = NoReply
    /\ UNCHANGED << chain, engineVars, last_block_id, current_block,
                    epAlive, pidfile, req, killed >>

\* 2. Extract
DriverExtract ==
    /\ dpc = "extract"
    /\ work' = [work EXCEPT !.todo = Extract(@)]
    /\ dpc' = "apply"
    /\ reply' = NoReply
    /\ UNCHANGED << chain, engineVars, ipc, last_block_id, spc,
                    current_block, epAlive, pidfile, req, killed >>

\* 3. Validate-and-apply, one operation per step, in transaction order
DriverApply ==
    /\ dpc = "apply"
    /\ work.todo # << >>
    /\ LET r == Apply(OpTable[Head(work.todo)], work.db, work.height) IN
       work' = [work EXCEPT
                  !.db = r.db,
                  !.todo = Tail(@),
                  !.acc = IF r.accepted THEN Append(@, Head(work.todo)) ELSE @]
    /\ reply' = NoReply
    /\ UNCHANGED << chain, engineVars, dpc, ipc, last_block_id, spc,
                    current_block, epAlive, pidfile, req, killed >>

\* 4. Seal
DriverSeal ==
    /\ dpc = "apply"
    /\ work.todo = << >>
    /\ work' = [work EXCEPT !.db = Seal(@, work.acc)]
    /\ dpc' = "persist"
    /\ reply' = NoReply
    /\ UNCHANGED << chain, engineVars, ipc, last_block_id, spc,
                    current_block, epAlive, pidfile, req, killed >>

\* 5. Persist: write (and fsync) the snapshot file of the new height ...
WriteSnapshot(files, h, db) ==
    [x \in DOMAIN files \cup {h} |-> IF x = h THEN db ELSE files[x]]

DriverPersistWrite ==
    /\ dpc = "persist"
    /\ snapshots' = WriteSnapshot(snapshots, work.height, work.db)
    /\ dpc' = "swap"
    /\ reply' = NoReply
    /\ UNCHANGED << chain, committed, work, ipc, last_block_id, spc,
                    current_block, epAlive, pidfile, req, killed >>

\* ... then swap the pointer; 6. Advance, or return from sync_virtualchain.
DriverPersistSwap ==
    /\ dpc = "swap"
    /\ committed' = work.height
    /\ IF work.height < Target
       THEN /\ work' = BeginBlock(work, work.height + 1)
            /\ dpc' = "fetch"
            /\ UNCHANGED << spc, ipc >>
       ELSE /\ work' = BeginBlock(work, 0)
            /\ dpc' = "idle"
            /\ IF spc = "sync"
               THEN spc' = "spawn_endpoint" /\ ipc' = ipc
               ELSE ipc' = "query" /\ spc' = spc
    /\ reply' = NoReply
    /\ UNCHANGED << chain, snapshots, last_block_id, current_block,
                    epAlive, pidfile, req, killed >>

\* SIGKILL (or power loss) of the process that runs the driver, at any
\* instant: its memory is lost, the files stay.
KillDriver ==
    /\ \/ spc = "sync"
       \/ ipc \in {"init", "sleep", "sync", "query"}
    /\ killed' = [pc |-> dpc, height |-> work.height]
    /\ work' = NoWork
    /\ dpc' = "idle"
    /\ IF spc = "sync"
       THEN spc' = "failed" /\ ipc' = ipc
       ELSE ipc' = "off" /\ spc' = spc
    /\ reply' = NoReply
    /\ UNCHANGED << chain, engineVars, last_block_id, current_block,
                    epAlive, pidfile, req >>

\* ------------------------------------------------------------------------
\* run_indexer
\* ------------------------------------------------------------------------

\* Lines 449-455: the first index-range query is unpacked unconditionally,
\* so a None answer raises TypeError and ends the process.
IndexerInit(answer) ==
    /\ ipc = "init"
    /\ LET r == get_index_range(answer) IN
       IF r = << >>
       THEN /\ ipc' = "crashed"
            /\ UNCHANGED << last_block_id, work >>
       ELSE /\ last_block_id' = r[2]
            /\ work' = Loaded(View(get_state_engine))
            /\ ipc' = "sleep"
    /\ reply' = NoReply
    /\ UNCHANGED << chain, engineVars, dpc, spc, current_block,
                    epAlive, pidfile, req, killed >>

\* Lines 459-460: sleep, then sync_virtualchain(last_block_id).
IndexerSync ==
    /\ ipc = "sleep"
    /\ IF committed < last_block_id
       THEN /\ ipc' = "sync"
            /\ dpc' = "fetch"
            /\ work' = BeginBlock(work, committed + 1)
       ELSE /\ ipc' = "query"
            /\ UNCHANGED << dpc, work >>
    /\ reply' = NoReply
    /\ UNCHANGED << chain, engineVars, last_block_id, spc,
                    current_block, epAlive, pidfile, req, killed >>

\* A loop that never refreshes its target from the chain tip.
IndexerQueryKeepsTarget(answer) ==
    /\ ipc = "query"
    /\ last_block_id' = last_block_id
    /\ ipc' = "sleep"
    /\ reply' = NoReply
    /\ UNCHANGED << chain, engineVars, driverVars, spc, current_block,
                    epAlive, pidfile, req, killed >>

\* Lines 462-466: a None answer keeps the target and goes round again.
IndexerQuery(answer) ==
    /\ ipc = "query"
    /\ LET next_block == get_index_range(answer) IN
       IF next_block = << >>
       THEN last_block_id' = last_block_id
       ELSE last_block_id' = next_block[2]
    /\ ipc' = "sleep"
    /\ reply' = NoReply
    /\ UNCHANGED << chain, engineVars, driverVars, spc, current_block,
                    epAlive, pidfile, req, killed >>

\* sigint_handler_indexer: sys.exit(0), wherever the indexer is.
sigint_handler_indexer ==
    /\ ipc' = "off"
    /\ dpc' = "idle"
    /\ work' = NoWork


\* ------------------------------------------------------------------------
\* Supervisor: run_blockstored / run_server
\* ------------------------------------------------------------------------

\* stop_server: nothing without a pid file; else the pid file is removed
\* (line 487) and then the process it names is sent SIGKILL (line 492).
\* os.kill may raise (the process belongs to someone else): the exception is
\* swallowed (lines 493-494) and the process lives on.
stop_server(killOk) ==
    IF pidfile = "none"
    THEN UNCHANGED << epAlive, pidfile, req >>
    ELSE /\ pidfile' = "none"
         /\ IF killOk /\ epAlive
            THEN epAlive' = FALSE /\ req' = NoReq
            ELSE UNCHANGED << epAlive, req >>

\* A start-up that spawns the endpoint without bringing the state up to
\* the chain tip first.
StartWithoutSync(answer, killOk) ==
    /\ spc \in {"stopped", "returned", "failed"}
    /\ ipc \in {"off", "crashed"}
    /\ stop_server(killOk)
    /\ LET r == get_index_range(answer) IN
       IF r = << >>
       THEN /\ spc' = "failed"
            /\ UNCHANGED << current_block, work, dpc >>
       ELSE /\ current_block' = r[2]
            /\ spc' = "spawn_endpoint"
            /\ UNCHANGED << work, dpc >>
    /\ reply' = NoReply
    /\ UNCHANGED << chain, engineVars, ipc, last_block_id, killed >>

\* `start`: stop_server() (line 655), then run_server up to the start-up
\* sync (lines 501-526).  The index range is unpacked unconditionally (line
\* 510).  A start while an indexer of an earlier run is still alive would
\* put a second driver on the same files; it is not modelled.
StartAction(answer, killOk) ==
    /\ spc \in {"stopped", "returned", "failed"}
    /\ ipc \in {"off", "crashed"}
    /\ stop_server(killOk)
    /\ LET r == get_index_range(answer) IN
       IF r = << >>
       THEN /\ spc' = "failed"
            /\ UNCHANGED << current_block, work, dpc >>
       ELSE /\ current_block' = r[2]
            /\ IF r[1] # r[2]
               THEN /\ spc' = "sync"
                    /\ work' = BeginBlock(Loaded(View(get_state_engine)),
                                          committed + 1)
                    /\ dpc' = "fetch"
               ELSE /\ spc' = "spawn_endpoint"
                    /\ UNCHANGED << work, dpc >>
    /\ reply' = NoReply
    /\ UNCHANGED << chain, engineVars, ipc, last_block_id, killed >>

\* Line 531: fork the server; twistd writes its pid file.
SpawnEndpoint ==
    /\ spc = "spawn_endpoint"
    /\ epAlive' = TRUE
    /\ pidfile' = "written"
    /\ spc' = "spawn_indexer"
    /\ reply' = NoReply
    /\ UNCHANGED << chain, engineVars, driverVars, ipc, last_block_id,
                    current_block, req, killed >>

\* Line 534: fork the indexer.
SpawnIndexer ==
    /\ spc = "spawn_indexer"
    /\ ipc' = "init"
    /\ spc' = "wait"
    /\ reply' = NoReply
    /\ UNCHANGED << chain, engineVars, driverVars, last_block_id,
                    current_block, epAlive, pidfile, req, killed >>

\* `stop` (line 669): stop_server().
StopAction(killOk) ==
    /\ pidfile # "none"
    /\ stop_server(killOk)
    /\ reply' = NoReply
    /\ UNCHANGED << chain, engineVars, driverVars, ipc, last_block_id,
                    spc, current_block, killed >>

\* The endpoint process ends on its own: a clean exit removes the pid
\* file, a crash leaves it behind.
EndpointExit ==
    /\ epAlive
    /\ epAlive' = FALSE
    /\ pidfile' \in {pidfile, "none"}
    /\ req' = NoReq
    /\ reply' = NoReply
    /\ UNCHANGED << chain, engineVars, driverVars, ipc, last_block_id,
                    spc, current_block, killed >>

\* Lines 539-545: blockstored.wait() returns, the indexer is sent SIGINT
\* and waited for.
SupervisorReap ==
    /\ spc = "wait"
    /\ ~epAlive
    /\ sigint_handler_indexer
    /\ spc' = "returned"
    /\ reply' = NoReply
    /\ UNCHANGED << chain, engineVars, last_block_id, current_block,
                    epAlive, pidfile, req, killed >>

\* Lines 547-568: an exception raised inside the try block (Popen, wait or
\* kill failing) once the endpoint has been forked.  The endpoint's process
\* group is sent SIGTERM, a failure of killpg is swallowed, and the
\* supervisor exits; the indexer is not touched.
SupervisorExcept(killOk) ==
    /\ spc \in {"spawn_indexer", "wait"}
    /\ IF killOk /\ epAlive
       THEN epAlive' = FALSE /\ pidfile' = "none" /\ req' = NoReq
       ELSE UNCHANGED << epAlive, pidfile, req >>
    /\ spc' = "failed"
    /\ reply' = NoReply
    /\ UNCHANGED << chain, engineVars, driverVars, ipc, last_block_id,
                    current_block, killed >>

\* sigint_handler_server (lines 148-156): stop_server(), sys.exit(0).  The
\* handler is installed at line 501; during the start-up sync the exit
\* also ends the driver, wherever it is.
sigint_handler_server(killOk) ==
    /\ spc \in {"sync", "spawn_endpoint", "spawn_indexer", "wait"}
    /\ stop_server(killOk)
    /\ spc' = "stopped"
    /\ IF spc = "sync"
       THEN /\ killed' = [pc |-> dpc, height |-> work.height]
            /\ work' = NoWork
            /\ dpc' = "idle"
       ELSE UNCHANGED << killed, work, dpc >>
    /\ reply' = NoReply
    /\ UNCHANGED << chain, engineVars, ipc, last_block_id, current_block >>

\* ------------------------------------------------------------------------
\* Endpoint: BlockstoredRPC
\* ------------------------------------------------------------------------

NoClient == "none"
NoName == "None"

\* get_utxo_provider_client: the chain.com client, else the bitcoind
\* fallback.  The fallback reads the global blockchain_opts, which nothing
\* in the module assigns: the NameError is caught and None is returned.
get_utxo_provider_client(provider) ==
    IF provider = "up" THEN "chaincom" ELSE NoClient

Error(msg) == [NoResult EXCEPT !.kind = "error", !.error = msg]

\* json_traceback: {"error": <last line>, "traceback": [...]}
json_traceback == Error("traceback")

\* Operation constructor (C6): the signed transaction, or an exception.
Constructor(op, name, consensus, raises) ==
    IF raises THEN json_traceback
    ELSE [NoResult EXCEPT
            !.kind = "tx",
            !.tx = [op |-> op, name |-> name, consensus |-> consensus]]

jsonrpc_ping == [NoResult EXCEPT !.kind = "status"]

jsonrpc_lookup(name) ==
    LET blockstore_state_engine == get_state_engine
        name_record == IF name \in Names
                       THEN get_name(View(blockstore_state_engine), name)
                       ELSE NoRecord
    IN IF name = NoName
       THEN Error("Not found.")
       ELSE IF name_record.exists
            THEN [NoResult EXCEPT !.kind = "record", !.record = name_record]
            ELSE [NoResult EXCEPT !.kind = "null"]

\* bitcoind.getinfo() raises when the node does not answer.
jsonrpc_getinfo(answer) ==
    IF answer = "unavailable"
    THEN [NoResult EXCEPT !.kind = "fault"]
    ELSE [NoResult EXCEPT
            !.kind = "info",
            !.blocks = tip,
            !.consensus = get_current_consensus(View(get_state_engine))]

\* A register that looks the name up before it asks for the UTXO client.
RegisterChecksNameFirst(name, provider, raises) ==
    LET blockchain_client_inst == get_utxo_provider_client(provider)
        db == get_state_engine
    IN IF is_name_registered(View(db), name)
       THEN Error("Name already registered")
       ELSE IF blockchain_client_inst = NoClient
            THEN Error("Failed to connect to blockchain UTXO provider")
            ELSE Constructor("register", name, NoConsensus, raises)

jsonrpc_register(name, provider, raises) ==
    LET blockchain_client_inst == get_utxo_provider_client(provider)
        db == get_state_engine
    IN IF blockchain_client_inst = NoClient
       THEN Error("Failed to connect to blockchain UTXO provider")
       ELSE IF is_name_registered(View(db), name)
            THEN Error("Name already registered")
            ELSE Constructor("register", name, NoConsensus, raises)

jsonrpc_update(name, provider, raises) ==
    LET blockchain_client_inst == get_utxo_provider_client(provider)
        db == get_state_engine
        consensus_hash == get_current_consensus(View(db))
    IN IF blockchain_client_inst = NoClient
       THEN Error("Failed to connect to blockchain UTXO provider")
       ELSE Constructor("update", name, consensus_hash, raises)

jsonrpc_transfer(name, provider, raises) ==
    LET blockchain_client_inst == get_utxo_provider_client(provider)
        db == get_state_engine
        consensus_hash == get_current_consensus(View(db))
    IN IF blockchain_client_inst = NoClient
       THEN Error("Failed to connect to blockchain UTXO provider")
       ELSE Constructor("transfer", name, consensus_hash, raises)

\* A renew of its own: the UTXO client, then the constructor.
RenewWithoutLookup(name, provider, raises) ==
    LET blockchain_client_inst == get_utxo_provider_client(provider)
    IN IF blockchain_client_inst = NoClient
       THEN Error("Failed to connect to blockchain UTXO provider")
       ELSE Constructor("register", name, NoConsensus, raises)

jsonrpc_renew(name, provider, raises) ==
    jsonrpc_register(name, provider, raises)

jsonrpc_revoke(name, provider, raises) ==
    LET blockchain_client_inst == get_utxo_provider_client(provider)
    IN IF blockchain_client_inst = NoClient
       THEN Error("Failed to connect to blockchain UTXO provider")
       ELSE Constructor("revoke", name, NoConsensus, raises)

jsonrpc_namespace_preorder(namespace_id, provider, raises) ==
    LET db == get_state_engine
        blockchain_client_inst == get_utxo_provider_client(provider)
        consensus_hash == get_current_consensus(View(db))
    IN IF blockchain_client_inst = NoClient
       THEN Error("Failed to connect to blockchain UTXO provider")
       ELSE Constructor("namespace_preorder", namespace_id, consensus_hash,
                        raises)

jsonrpc_namespace_reveal(namespace_id, provider, raises) ==
    LET blockchain_client_inst == get_utxo_provider_client(provider)
    IN IF blockchain_client_inst = NoClient
       THEN Error("Failed to connect to blockchain UTXO provider")
       ELSE Constructor("namespace_reveal", namespace_id, NoConsensus, raises)

jsonrpc_namespace_ready(namespace_id, provider, raises) ==
    LET blockchain_client_inst == get_utxo_provider_client(provider)
    IN IF blockchain_client_inst = NoClient
       THEN Error("Failed to connect to blockchain UTXO provider")
       ELSE Constructor("namespace_ready", namespace_id, NoConsensus, raises)

\* The methods served in one step, and the arguments tried.
Namespaces == {"id"}

ConstructorMethods ==
    {"preorder", "register", "update", "transfer", "renew", "revoke",
     "namespace_preorder", "namespace_reveal", "namespace_ready"}

Requests ==
    ({"lookup"} \X (Names \cup {NoName}))
    \cup ({"ping", "getinfo"} \X {""})
    \cup ({"register", "update", "transfer", "renew", "revoke"} \X Names)
    \cup ({"namespace_preorder", "namespace_reveal", "namespace_ready"}
            \X Namespaces)

\* `provider` also stands for the bitcoind node getinfo asks: it answers
\* unless it is "down".
Dispatch(method, arg, provider, raises) ==
    CASE method = "ping" -> jsonrpc_ping
      [] method = "lookup" -> jsonrpc_lookup(arg)
      [] method = "getinfo" ->
            jsonrpc_getinfo(IF provider = "down" THEN "unavailable" ELSE "ok")
      [] method = "register" -> jsonrpc_register(arg, provider, raises)
      [] method = "update" -> jsonrpc_update(arg, provider, raises)
      [] method = "transfer" -> jsonrpc_transfer(arg, provider, raises)
      [] method = "renew" -> jsonrpc_renew(arg, provider, raises)
      [] method = "revoke" -> jsonrpc_revoke(arg, provider, raises)
      [] method = "namespace_preorder" ->
            jsonrpc_namespace_preorder(arg, provider, raises)
      [] method = "namespace_reveal" ->
            jsonrpc_namespace_reveal(arg, provider, raises)
      [] method = "namespace_ready" ->
            jsonrpc_namespace_ready(arg, provider, raises)

\* A register handler that marks the name as taken in the name table as
\* soon as it has built the transaction.
ServeRecording ==
    /\ epAlive
    /\ req = NoReq
    /\ reply = NoReply
    /\ \E r \in Requests, provider \in Providers, raises \in BOOLEAN :
         /\ reply' = Stamp(r[1], r[2], provider,
                           Dispatch(r[1], r[2], provider, raises))
         /\ IF r[1] = "register" /\ reply'.result.kind = "tx"
            THEN snapshots' = [snapshots EXCEPT
                                 ![committed].names[r[2]].exists = TRUE]
            ELSE snapshots' = snapshots
    /\ UNCHANGED << chain, committed, driverVars, ipc, last_block_id,
                    spc, current_block, epAlive, pidfile, req, killed >>

\* One request served by the endpoint: the handlers only read the engine.
Serve ==
    /\ epAlive
    /\ req = NoReq
    /\ reply = NoReply
    /\ \E r \in Requests, provider \in Providers, raises \in BOOLEAN :
         reply' = Stamp(r[1], r[2], provider,
                        Dispatch(r[1], r[2], provider, raises))
    /\ UNCHANGED << chain, engineVars, driverVars, ipc, last_block_id,
                    spc, current_block, epAlive, pidfile, req, killed >>

\* jsonrpc_preorder, read by read: the indexer runs in another process and
\* may commit between any two of them.
\* Lines 265-269: the UTXO client, then the engine handle.
PreorderBegin ==
    /\ epAlive
    /\ req = NoReq
    /\ reply = NoReply
    /\ \E name \in Names, provider \in Providers :
         IF get_utxo_provider_client(provider) = NoClient
         THEN /\ reply' = Stamp("preorder", name, provider,
                    Error("Failed to connect to blockchain UTXO provider"))
              /\ req' = req
         ELSE /\ req' = [method |-> "preorder", name |-> name,
                         step |-> "consensus", db |-> get_state_engine,
                         consensus |-> NoConsensus]
              /\ reply' = NoReply
    /\ UNCHANGED << chain, engineVars, driverVars, ipc, last_block_id,
                    spc, current_block, epAlive, pidfile, killed >>

\* Lines 270-272
PreorderConsensus ==
    /\ epAlive
    /\ req.step = "consensus"
    /\ LET consensus_hash == get_current_consensus(View(req.db)) IN
       IF consensus_hash = NoConsensus
       THEN /\ reply' = Stamp("preorder", req.name, "up",
                              Error("Nameset snapshot not found."))
            /\ req' = NoReq
       ELSE /\ req' = [req EXCEPT !.step = "registered",
                                  !.consensus = consensus_hash]
            /\ reply' = NoReply
    /\ UNCHANGED << chain, engineVars, driverVars, ipc, last_block_id,
                    spc, current_block, epAlive, pidfile, killed >>

\* A second get_state_engine() call instead of the handle already held.
FreshHandle(r) == get_state_engine

\* Line 274: the handle the name is looked up through.
PreorderLookupHandle(r) == r.db

\* Lines 274-284
PreorderRegistered ==
    /\ epAlive
    /\ req.step = "registered"
    /\ \E raises \in BOOLEAN :
         reply' = Stamp("preorder", req.name, "up",
                    IF is_name_registered(View(PreorderLookupHandle(req)),
                                          req.name)
                    THEN Error("Name already registered")
                    ELSE Constructor("preorder", req.name, req.consensus,
                                     raises))
    /\ req' = NoReq
    /\ UNCHANGED << chain, engineVars, driverVars, ipc, last_block_id,
                    spc, current_block, epAlive, pidfile, killed >>

\* The reply has been written to the connection; the endpoint takes the
\* next request.
ReplySent ==
    /\ reply # NoReply
    /\ reply' = NoReply
    /\ UNCHANGED << chain, engineVars, driverVars, ipc, last_block_id,
                    spc, current_block, epAlive, pidfile, req, killed >>

\* ------------------------------------------------------------------------
\* Specification
\* ------------------------------------------------------------------------

Next ==
    \/ TipGrow
    \/ \E answer \in SourceAnswers : DriverFetch(answer)
    \/ \E answer \in SourceAnswers : DriverFetchUnavailable(answer)
    \/ DriverBackoff
    \/ \E answer \in SourceAnswers : DriverHalt(answer)
    \/ DriverExtract
    \/ DriverApply
    \/ DriverSeal
    \/ DriverPersistWrite
    \/ DriverPersistSwap
    \/ KillDriver
    \/ \E answer \in SourceAnswers : IndexerInit(answer)
    \/ IndexerSync
    \/ \E answer \in SourceAnswers : IndexerQuery(answer)
    \/ \E answer \in SourceAnswers : StartAction(answer, TRUE)
    \/ SpawnEndpoint
    \/ SpawnIndexer
    \/ StopAction(TRUE)
    \/ EndpointExit
    \/ SupervisorReap
    \/ SupervisorExcept(TRUE)
    \/ sigint_handler_server(TRUE)
    \/ Serve
    \/ PreorderBegin
    \/ PreorderConsensus
    \/ PreorderRegistered
    \/ ReplySent

\* The service with requests served; every SIGKILL and SIGTERM the
\* supervisor sends is delivered (their failure is explored in
\* LifecycleSpec).
Spec == Init /\ [][Next]_vars

\* ------------------------------------------------------------------------
\* The life cycle of the processes on its own: start, stop, signals and
\* exceptions, with os.kill and os.killpg free to fail, and no request
\* served.
\* ------------------------------------------------------------------------

LifecycleNext ==
    \/ TipGrow
    \/ \E answer \in SourceAnswers : DriverFetch(answer)
    \/ \E answer \in SourceAnswers : DriverFetchUnavailable(answer)
    \/ DriverBackoff
    \/ \E answer \in SourceAnswers : DriverHalt(answer)
    \/ DriverExtract
    \/ DriverApply
    \/ DriverSeal
    \/ DriverPersistWrite
    \/ DriverPersistSwap
    \/ KillDriver
    \/ \E answer \in SourceAnswers : IndexerInit(answer)
    \/ IndexerSync
    \/ \E answer \in SourceAnswers : IndexerQuery(answer)
    \/ \E answer \in SourceAnswers, killOk \in BOOLEAN :
            StartAction(answer, killOk)
    \/ SpawnEndpoint
    \/ SpawnIndexer
    \/ \E killOk \in BOOLEAN : StopAction(killOk)
    \/ EndpointExit
    \/ SupervisorReap
    \/ \E killOk \in BOOLEAN : SupervisorExcept(killOk)
    \/ \E killOk \in BOOLEAN : sigint_handler_server(killOk)

LifecycleSpec == Init /\ [][LifecycleNext]_vars


\* ------------------------------------------------------------------------
\* The acceptance rules on their own: any sender may submit any operation
\* on the name "a" at any height; `work` holds the name database and the
\* height of the block being applied.
\* ------------------------------------------------------------------------

RuleAddrs == {"A", "B"}

RuleData == 7

\* The candidate operations a block at height h may carry.  A preorder
\* commits to the latest consensus hash or to a stale one; a register names
\* the hash its preorder committed to.
RuleOps(h) ==
    { Op("preorder", "a", s, 1, ch, NoAddr, FALSE, NoData) :
          s \in RuleAddrs, ch \in {h - 1, h - 3} \cap (0..MaxRuleHeight) }
    \cup
    { Op("register", "a", s, 1, ch, NoAddr, FALSE, NoData) :
          s \in RuleAddrs, ch \in ((h - 4)..(h - 1)) \cap (0..MaxRuleHeight) }
    \cup
    { Op("update", "a", s, 0, 0, NoAddr, FALSE, RuleData) : s \in RuleAddrs }
    \cup
    { Op("transfer", "a", st[1], 0, 0, st[2], FALSE, NoData) :
          st \in { x \in RuleAddrs \X RuleAddrs : x[1] # x[2] } }
    \cup
    { Op("revoke", "a", s, 0, 0, NoAddr, FALSE, NoData) : s \in RuleAddrs }

RulesInit ==
    /\ chain = << >>
    /\ snapshots = [h \in {0} |-> Genesis]
    /\ committed = 0
    /\ work = [db |-> Genesis, height |-> 1, todo |-> << >>, acc |-> << >>]
    /\ dpc = "idle"
    /\ ipc = "off"
    /\ last_block_id = 0
    /\ spc = "stopped"
    /\ current_block = 0
    /\ epAlive = FALSE
    /\ pidfile = "none"
    /\ req = NoReq
    /\ reply = NoReply
    /\ killed = NoKill

\* apply(op, ctx) on the next candidate operation of the block.
RuleApply(op) ==
    /\ work' = [work EXCEPT !.db = Apply(op, work.db, work.height).db]
    /\ UNCHANGED << chain, engineVars, dpc, ipc, last_block_id, spc,
                    current_block, epAlive, pidfile, req, reply, killed >>

\* The block is done; the next one begins.
RuleNextBlock ==
    /\ work.height < MaxRuleHeight
    /\ work' = [work EXCEPT !.height = @ + 1]
    /\ UNCHANGED << chain, engineVars, dpc, ipc, last_block_id, spc,
                    current_block, epAlive, pidfile, req, reply, killed >>

RulesNext ==
    \/ \E op \in RuleOps(work.height) : RuleApply(op)
    \/ RuleNextBlock

RulesSpec == RulesInit /\ [][RulesNext]_vars


\* ------------------------------------------------------------------------
\* The indexer loop under fairness: the supervisor starts the service, the
\* block source may fail any single request but answers again and again,
\* no process is killed, and every enabled step of the indexer and of the
\* driver is eventually taken.
\* ------------------------------------------------------------------------

LiveNext ==
    \/ TipGrow
    \/ DriverFetch("ok")
    \/ DriverFetchUnavailable("unavailable")
    \/ DriverBackoff
    \/ DriverExtract
    \/ DriverApply
    \/ DriverSeal
    \/ DriverPersistWrite
    \/ DriverPersistSwap
    \/ IndexerInit("ok")
    \/ IndexerSync
    \/ IndexerQuery("ok")
    \/ IndexerQuery("unavailable")
    \/ \E killOk \in BOOLEAN : StartAction("ok", killOk)
    \/ SpawnEndpoint
    \/ SpawnIndexer

LiveFairness ==
    /\ WF_vars(IndexerInit("ok"))
    /\ WF_vars(IndexerSync)
    /\ SF_vars(IndexerQuery("ok"))
    /\ SF_vars(DriverFetch("ok"))
    /\ WF_vars(DriverBackoff)
    /\ WF_vars(DriverExtract)
    /\ WF_vars(DriverApply)
    /\ WF_vars(DriverSeal)
    /\ WF_vars(DriverPersistWrite)
    /\ WF_vars(DriverPersistSwap)

LiveSpec == Init /\ [][LiveNext]_vars /\ LiveFairness


\* ------------------------------------------------------------------------
\* Properties
\* ------------------------------------------------------------------------

\* The committed state as the endpoint reads it.
CommittedView == View(committed)

\* C1: every getinfo reply reports as `blocks` the height of the last fully
\* committed block and as `consensus` the consensus hash of that height.
C1_GetinfoReportsCommittedHeight ==
    (reply.method = "getinfo" /\ reply.result.kind = "info") =>
        /\ reply.result.blocks = committed
        /\ reply.result.consensus = get_current_consensus(CommittedView)

\* C2: lookup of a name without a record returns an error object, lookup of
\* a name with a record returns the record; a null record is never returned
\* as a successful result.
C2_LookupMissingIsError ==
    (reply.method = "lookup" /\ reply.name \in Names) =>
        IF is_name_registered(CommittedView, reply.name)
        THEN /\ reply.result.kind = "record"
             /\ reply.result.record = get_name(CommittedView, reply.name)
        ELSE /\ reply.result.kind = "error"
             /\ reply.result.kind # "null"

\* C3: while the engine has produced no consensus hash, every command that
\* embeds the consensus hash (preorder, update, transfer,
\* namespace_preorder) answers "Nameset snapshot not found" and builds no
\* transaction (the UTXO provider being reachable).
C3_NoConsensusIsRefused ==
    ( /\ reply.method \in {"preorder", "update", "transfer",
                           "namespace_preorder"}
      /\ reply.provider = "up"
      /\ get_current_consensus(CommittedView) = NoConsensus ) =>
        /\ reply.result.kind = "error"
        /\ reply.result.error = "Nameset snapshot not found."

\* C4: renew of a currently registered name is not refused as "already
\* registered": with the UTXO provider reachable the constructor is run and
\* its transaction (or its own failure) is the reply.
C4_RenewOfRegisteredNameBuildsTx ==
    ( /\ reply.method = "renew"
      /\ reply.provider = "up"
      /\ is_name_registered(CommittedView, reply.name) ) =>
        \/ reply.result.kind = "tx"
        \/ reply.result = json_traceback

\* C5: once the indexer has stopped on a fatal error, every request that
\* needs the constructor is refused with an error, and lookup is still
\* answered from the last good snapshot.
C5_DegradedModeRefusesConstructors ==
    [][ ipc = "crashed" =>
          /\ (Serve /\ reply'.method \in ConstructorMethods)
                => reply'.result.kind = "error"
          /\ PreorderBegin => reply'.result.kind = "error"
          /\ (Serve /\ reply'.method = "lookup")
                => reply'.result = jsonrpc_lookup(reply'.name) ]_vars

\* The driver is between two blocks: no block is partially applied.
BetweenBlocks == dpc \in {"idle", "fetch", "backoff"}

\* C6: the shutdown of the indexer (the supervisor's SIGINT after the
\* endpoint has been stopped) is acted on only between blocks, never while a
\* block is partially applied.
C6_ShutdownOnlyBetweenBlocks ==
    [][ SupervisorReap => BetweenBlocks ]_vars

\* C7: no endpoint request, successful or not, changes the name table, the
\* preorder table or the consensus tape, on disk or in the driver's memory.
C7_EndpointOnlyReads ==
    [][ (Serve \/ PreorderBegin \/ PreorderConsensus \/ PreorderRegistered
           \/ ReplySent)
          => UNCHANGED << snapshots, committed, work >> ]_vars

\* A constructor request was refused while the driver was in the middle of
\* a block on top of a non-empty committed state.
C7_Witness ==
    /\ reply.method \in ConstructorMethods
    /\ reply.result.kind = "error"
    /\ committed > 0
    /\ dpc = "apply"
    /\ work.acc # << >>

\* The height whose consensus hash is `consensus`.
HeightOf(consensus) ==
    CHOOSE h \in 0..committed :
        get_current_consensus(Replay(chain, h)) = consensus

\* C8: in preorder, the consensus hash handed to the constructor and the
\* is-name-registered check come from one committed height, which is the
\* state after a prefix of the ordered operation sequence, also when the
\* indexer commits between the two reads.
C8_PreorderReadsOneSnapshot ==
    [][ PreorderRegistered =>
          LET h == HeightOf(req.consensus)
              seen == Replay(chain, h)
          IN /\ \E x \in 0..committed :
                   get_current_consensus(Replay(chain, x)) = req.consensus
             /\ reply'.result.kind = "tx"
                   => /\ ~is_name_registered(seen, req.name)
                      /\ reply'.result.tx.consensus
                            = get_current_consensus(seen)
             /\ reply'.result.error = "Name already registered"
                   => is_name_registered(seen, req.name) ]_vars

\* A preorder has read its consensus hash, and the indexer has since
\* committed a block that registers the name.
C8_Witness ==
    /\ req.step = "registered"
    /\ req.db < committed
    /\ ~is_name_registered(View(req.db), req.name)
    /\ is_name_registered(CommittedView, req.name)

\* C10: whatever instant the driver is killed at, the state a restarted
\* driver loads and the endpoint reads is the fully committed state of the
\* pointer's height: the block in progress is either wholly in it or not at
\* all.
C10_AtomicCommit ==
    /\ View(get_state_engine) = Replay(chain, committed)
    /\ dpc = "fetch" => work.db = Replay(chain, committed)
    /\ killed.height > 0 =>
          /\ committed \in {killed.height - 1, killed.height}
          /\ View(get_state_engine) \in
                {Replay(chain, killed.height - 1),
                 Replay(chain, killed.height)}

\* The driver was killed after writing the snapshot file of a block that
\* changes the name table and before swapping the pointer, and has been
\* restarted.
C10_Witness ==
    /\ killed.pc = "swap"
    /\ killed.height = committed + 1
    /\ killed.height \in DOMAIN snapshots
    /\ snapshots[killed.height].names # CommittedView.names
    /\ spc = "sync"

\* C9: an unavailable answer to an index-range query, before the loop or in
\* it, leaves the indexer running with its previous target.
C9_UnavailableNeverStopsIndexer ==
    [][ (IndexerInit("unavailable") \/ IndexerQuery("unavailable")) =>
          /\ ipc' = "sleep"
          /\ last_block_id' = last_block_id ]_vars

\* C11: the owner of an existing name changes only in an accepted transfer:
\* no accepted preorder, register, update or revoke changes the owner of a
\* name that already has a record.
C11_OwnerChangesOnlyByTransfer ==
    [][ \A op \in RuleOps(work.height) :
          ( /\ RuleApply(op)
            /\ Accepted(op, work.db, work.height)
            /\ op.kind # "transfer" ) =>
              \A n \in Names :
                  work.db.names[n].exists =>
                      work'.db.names[n].owner = work.db.names[n].owner ]_vars

\* C12: a revoked name accepts no update, transfer, renew, register or
\* second revoke at any height up to its expiration.
C12_RevokedNameAcceptsNothing ==
    \A op \in RuleOps(work.height) :
        ( /\ op.kind \in {"update", "transfer", "register", "revoke"}
          /\ work.db.names[op.name].exists
          /\ work.db.names[op.name].revoked
          /\ work.height <= work.db.names[op.name].expires ) =>
            ~Accepted(op, work.db, work.height)

\* C13: a register is accepted only if a preorder with its fingerprint
\* exists, made by the same sender at most preorder_ttl blocks ago; the
\* accepted register removes that preorder, so the same register is not
\* accepted a second time on it.
C13_RegisterConsumesItsPreorder ==
    [][ \A op \in RuleOps(work.height) :
          ( /\ op.kind = "register"
            /\ RuleApply(op)
            /\ Accepted(op, work.db, work.height) ) =>
              LET fp == Fingerprint(op.name, op.salt, op.ch) IN
              /\ \E p \in work.db.preorders :
                    /\ p.fp = fp
                    /\ p.sender = op.sender
                    /\ work.height - p.height <= PreorderTTL
              /\ \A p \in work'.db.preorders : p.fp # fp
              /\ ~Accepted(op, work'.db, work'.height) ]_vars

\* A name was registered in the current block on a preorder made in an
\* earlier one, and an older preorder of it, now past its TTL, is still in
\* the table.
C13_Witness ==
    /\ work.db.names["a"].exists
    /\ work.db.names["a"].registered = work.height
    /\ \E p \in work.db.preorders : work.height - p.height > PreorderTTL
    /\ \A p \in work.db.preorders :
          work.height - p.height > PreorderTTL \/ p.sender # work.db.names["a"].owner

\* C14: preorder returns a transaction only if, in this order, the UTXO
\* client is available, a consensus hash exists and the name is not
\* registered; register only if the client is available and the name is not
\* registered.  On a registered name both answer "Name already registered"
\* without running the constructor, and a constructor failure is returned
\* as an error object, never raised.
C14_PreorderRegisterGuards ==
    [][ /\ (Serve /\ reply'.method = "register") =>
              LET r == reply'.result
                  client == get_utxo_provider_client(reply'.provider)
                  taken == is_name_registered(CommittedView, reply'.name)
              IN /\ r.kind \in {"tx", "error"}
                 /\ r.kind = "tx" => (client # NoClient /\ ~taken)
                 /\ client = NoClient =>
                      r = Error("Failed to connect to blockchain UTXO provider")
                 /\ (client # NoClient /\ taken) =>
                      r = Error("Name already registered")
        /\ PreorderBegin =>
              \/ /\ reply' = NoReply
                 /\ req'.step = "consensus"
              \/ /\ get_utxo_provider_client(reply'.provider) = NoClient
                 /\ reply'.result =
                      Error("Failed to connect to blockchain UTXO provider")
                 /\ req' = NoReq
        /\ PreorderConsensus =>
              IF get_current_consensus(View(req.db)) = NoConsensus
              THEN /\ reply'.result = Error("Nameset snapshot not found.")
                   /\ req' = NoReq
              ELSE /\ reply' = NoReply
                   /\ req'.step = "registered"
        /\ PreorderRegistered =>
              LET r == reply'.result
                  taken == is_name_registered(View(req.db), req.name)
              IN /\ r.kind \in {"tx", "error"}
                 /\ r.kind = "tx" =>
                      (~taken /\ req.consensus # NoConsensus)
                 /\ taken => r = Error("Name already registered") ]_vars

\* A register of a registered name has been refused although the UTXO
\* client was available.
C14_Witness ==
    /\ reply.method = "register"
    /\ get_utxo_provider_client(reply.provider) # NoClient
    /\ is_name_registered(CommittedView, reply.name)
    /\ reply.result = Error("Name already registered")

\* C15: renew(name, privkey) answers exactly what register(name, privkey)
\* answers in the same state.
C15_RenewIsRegister ==
    reply.method = "renew" =>
        \E raises \in BOOLEAN :
            reply.result =
                Dispatch("register", reply.name, reply.provider, raises)

\* A renew of a registered name has been answered.
C15_Witness ==
    /\ reply.method = "renew"
    /\ reply.provider = "up"
    /\ is_name_registered(CommittedView, reply.name)

\* C16: when the chain.com client cannot be built and bitcoind can be
\* reached, the handlers get the bitcoind client and do not answer "Failed
\* to connect to blockchain UTXO provider".
C16_BitcoindFallback ==
    ( /\ reply.method \in ConstructorMethods
      /\ reply.provider = "chaincom_down" ) =>
        reply.result # Error("Failed to connect to blockchain UTXO provider")

\* C17: the pid file is never removed while the endpoint it records stays
\* alive, and no endpoint is alive when run_server spawns a new one.
C17_AtMostOneEndpoint ==
    [][ /\ (pidfile = "written" /\ pidfile' = "none") => ~epAlive'
        /\ SpawnEndpoint => ~epAlive ]_vars

\* The indexer process is running.
IndexerRunning == ipc \in {"init", "sleep", "sync", "query"}

\* The indexer has called sync_virtualchain with target T.
SyncCalled(T) == ipc \in {"sync", "query"} /\ last_block_id = T

\* C18: with a fair indexer loop and a block source that keeps answering,
\* a chain tip that stays at T is eventually the target of a sync call; the
\* target of each sync is the tip seen by the last answered query, and a
\* failed query leaves it unchanged.
C18_IndexerCatchesUp ==
    /\ [][ /\ IndexerQuery("unavailable") => last_block_id' = last_block_id
           /\ IndexerQuery("ok") => last_block_id' = tip
           /\ IndexerInit("ok") => last_block_id' = tip
           /\ IndexerSync =>
                /\ last_block_id' = last_block_id
                /\ committed < last_block_id =>
                     (ipc' = "sync" /\ work'.height = committed + 1)
           /\ (ipc = "sync" /\ DriverPersistSwap /\ ipc' = "query")
                => committed' = last_block_id ]_vars
    /\ \A T \in 0..MaxHeight :
          (IndexerRunning /\ tip = T) ~> (tip # T \/ SyncCalled(T))

\* The tip has grown since the service started, a query failed on the way,
\* and the indexer is syncing to the new tip.
C18_Witness ==
    /\ ipc = "sync"
    /\ last_block_id = tip
    /\ current_block < tip
    /\ committed < tip

C20_NoOrphanIndexer ==
    [][ /\ SupervisorReap => ~IndexerRunning'
        /\ \A killOk \in BOOLEAN :
              (spc = "wait" /\ SupervisorExcept(killOk)) =>
                  (~IndexerRunning' /\ ~epAlive') ]_vars

====
